---- MODULE Spec2Model ----
(***************************************************************************)
(* The Biologic retry loops of OT2_control.py: the module-level deposition *)
(* loop (lines 810-916) and run_and_save_characterization (1625-1718),     *)
(* which consume the sample stream of channel.run_techniques, cut it into  *)
(* per-technique tables and write each table with DataFrame.to_csv; the    *)
(* connect loop and run_techniques of BiologicDevice                       *)
(* (core/devices/biologic_device.py) as ExperimentManager's three          *)
(* characterization jobs call it; and DataAcquisitionModule with a         *)
(* DataStorage handler (utils/data_processing.py).                         *)
(*                                                                         *)
(* Time values are kept in ticks of half a time unit (ToTicks), so that    *)
(* 0.5 is representable and float comparison becomes integer comparison.   *)
(* A DataFrame is the sequence of its rows; every payload has at least one *)
(* field, so DataFrame.empty is "no rows".                                 *)
(***************************************************************************)
EXTENDS Integers, Sequences, FiniteSets, TLC

\* ---------------------------------------------------------------- bounds
MaxSamples == 2      \* samples delivered in one session of a free stream
MaxRunId == 1        \* run ids of a free stream are 0..MaxRunId
MaxCalls == 2        \* successive calls of run_and_save_characterization

\* ------------------------------------------------------ program constants
intMaxAttempts == 3  \* OT2_control.py:812 and :1630
RestartGap == 2      \* "fltTime_prev - 2 > fltTime_curr", :872 and :1678
None == -1           \* intID_tech = None, :1645 (run ids are >= 0)
max_connection_attempts == 3   \* BiologicConfig, src/config/device_config.py:44
JobCount == 3        \* _run_characterization_batch1/2/3, experiment_manager.py:143-145

ToTicks(units) == 2 * units

\* ------------------------------------------------------------ the samples
\* data_temp: tech_index, and what data_temp.data.to_json() holds
\* ('process_index' present or not, 'time' present or not, its value).
Timed(i, t) == [tech_index |-> i, process |-> FALSE, hasTime |-> TRUE, time |-> t]
Untimed(i) == [tech_index |-> i, process |-> FALSE, hasTime |-> FALSE, time |-> 0]
Process(i) == [tech_index |-> i, process |-> TRUE, hasTime |-> FALSE, time |-> 0]

FreeTimes == {0, ToTicks(3)}
FreeSamples ==
  {Timed(i, t) : i \in 0..MaxRunId, t \in FreeTimes}
    \cup {Untimed(i) : i \in 0..MaxRunId}
    \cup {Process(i) : i \in 0..MaxRunId}

\* Fixed streams, consumed in one attempt.
Repeat(i, k) == [j \in 1..k |-> Timed(i, j - 1)]
Script ==
  [ P3 |-> <<Timed(0,0), Timed(0,2), Timed(0,8), Timed(1,0), Timed(1,1), Timed(2,0)>>,
    P4 |-> <<Timed(0,ToTicks(0)), Timed(0,ToTicks(1)), Timed(0,ToTicks(2)), Timed(0,1)>>,
    P4b |-> <<Timed(0,ToTicks(0)), Timed(0,ToTicks(1)), Timed(0,ToTicks(3)), Timed(0,1)>>,
    Scenario |-> Repeat(0, 10) \o Repeat(1, 5) \o Repeat(0, 3),
    Stale |-> <<Timed(0,ToTicks(3)), Timed(0,ToTicks(0)), Untimed(0)>>,
    Exact2 |-> <<Timed(0,ToTicks(0)), Timed(0,ToTicks(2)), Timed(0,ToTicks(0)),
                 Timed(0,ToTicks(3)), Process(0), Timed(0,1)>> ]
Modes == {"free", "P3", "P4", "P4b", "Scenario", "Stale", "Exact2"}

\* BiologicDevice.run_techniques: the stream of one job that runs into its
\* third technique, one sample each
JobStream == <<Timed(0, 0), Timed(1, 0), Timed(2, 0)>>
DeviceModes == {"free", "Jobs"}

\* the technique list submitted to channel.run_techniques; a sample of run
\* id i is of the type of the i-th technique
techniques_list == <<"ocv", "cp", "ocv">>
TechniqueName(s) == techniques_list[(s.tech_index % Len(techniques_list)) + 1]

\* the technique lists of the three characterization jobs
\* (experiment_manager.py:242-330), by the module name of their data type
job_techniques ==
  << <<"ocv", "cv", "cv", "cv", "cv", "cv", "peis", "peis", "cv", "cv">>,
     <<"peis", "peis", "cv", "lp">>,
     <<"cv", "ocv", "cv", "cv", "cv", "cv", "cv", "peis", "peis", "cv">> >>

VARIABLES
  prog,                 \* "dep": the deposition loop, "char": run_and_save_characterization,
                        \* "device": BiologicDevice, "acq": DataAcquisitionModule with
                        \* a DataStorage handler
  mode, todo,           \* the stream offered by the instrument
  pc,                   \* "loop" (while test), "streaming" (inside for), "finished";
                        \* BiologicDevice.connect: "connecting", "connected", "raised"
                        \* BiologicDevice.run_techniques: "running", "op_error"
                        \* start_acquisition: "acquiring", "acq_done", "acq_raised"
  attempts, connected,  \* BiologicDevice.connect: its local counter, self.connected
  df_data, tech_id, tech_id_add, current_technique, first_technique,
                        \* the locals of BiologicDevice.run_techniques
  job,                  \* calls of BiologicDevice.run_techniques made so far
  boolTryToConnect, intAttempts_temp,
  boolFirstTechnique, boolNewTechnique, boolAdd1ToTechIndex,
  intID_tech, intID_tech_add, fltTime_prev, fltTime_curr,
  dfData, strCurrentTechnique, intGlobalTechID,
  files,                \* the CSV files written by this call, in write order
  stream,               \* the samples delivered to this call, in arrival order, each
                        \* with what its iteration did: same (run id = intID_tech on
                        \* arrival), idchange (the run-id test set boolNewTechnique),
                        \* restart (the restart test set both flags), opens (the
                        \* "if boolNewTechnique:" block was entered), done (the body ran
                        \* to its end), tprev/tcurr (fltTime_prev/curr after it), add
                        \* (intID_tech_add on arrival)
  connects, opened,     \* calls of connect(), whether one has succeeded (this call)
  sleeps,               \* 50 s sleeps taken (this call)
  call, startID,        \* number of the current call, the id it was given
  writeFailed,          \* a to_csv (a save_technique_data) of this call has raised
  bl,                   \* "with connect(...) as bl": the connection is held
  eos,                  \* the runner of an attempt of this call has been exhausted
  delivered,            \* samples delivered so far in the session
  earlier,              \* the numbers of the files of earlier calls, in write order
  clients,              \* WebSocketServer.clients
  task,                 \* the websocket_handler task of each connection
  sending,              \* broadcast() is inside its "for client in self.clients"
  visited, size,        \* the set iterator of that loop: the clients it has
                        \* yielded, the size of the set when it was made
  disconnected_clients, \* the local set of broadcast()
  removes,              \* calls of self.clients.remove, per client
  raised                \* the exceptions raised so far by a handler or by broadcast()

locals == <<boolTryToConnect, intAttempts_temp, boolFirstTechnique, boolNewTechnique,
            boolAdd1ToTechIndex, intID_tech, intID_tech_add, fltTime_prev,
            fltTime_curr, dfData, strCurrentTechnique, intGlobalTechID>>
runlocals == <<df_data, tech_id, tech_id_add, current_technique, first_technique, job>>
dev == <<attempts, connected, runlocals>>
server == <<clients, task, sending, visited, size, disconnected_clients, removes, raised>>
vars == <<dev, server, prog, mode, todo, pc, locals, files, stream, connects, opened, sleeps, call,
          startID, writeFailed, delivered, earlier, bl, eos>>

\* ------------------------------------------------------------- helpers
\* the while test
CanTry_inclusive(b, a) == b /\ a <= intMaxAttempts
CanTry(b, a) == b /\ a < intMaxAttempts

\* "data_temp.tech_index != intID_tech", with the None test of :1665
IsNewTechnique_increase(p, id, s) ==
  IF p = "char" THEN id = None \/ s.tech_index > id ELSE s.tech_index > id
IsNewTechnique(p, id, s) ==
  IF p = "char" THEN id = None \/ s.tech_index # id ELSE s.tech_index # id

\* the restart test of :872 / :1678
RestartDetected_inclusive(prev, curr, s, id) ==
  (prev - ToTicks(RestartGap) >= curr) /\ s.tech_index = id
RestartDetected_nogap(prev, curr, s, id) == (prev > curr) /\ s.tech_index = id
RestartDetected(prev, curr, s, id) ==
  (prev - ToTicks(RestartGap) > curr) /\ s.tech_index = id

\* the row built from the sample: process_data.to_json() or data.to_json()
Row_raw(s, n) == [n |-> n, payload |-> "data"]
Row(s, n) == [n |-> n, payload |-> IF s.process THEN "process_data" ELSE "data"]

\* pd.concat([dfData, dfData_temp], ignore_index=True)
Concat_prepend(df, row) == <<row>> \o df
Concat(df, row) == Append(df, row)

\* "if not dfData.empty" guards the write in run_and_save_characterization;
\* the deposition loop writes unconditionally
WritesFile_always(p, df) == TRUE
WritesFile(p, df) == IF p = "char" THEN df # <<>> ELSE TRUE

\* the number in the file name
FileNumber_runid(p, global, id, add) == id + add
FileNumber(p, global, id, add) == IF p = "char" THEN global ELSE id + add

\* intGlobalTechID += 1
NextGlobalTechID_same(id) == id
NextGlobalTechID(id) == id + 1

\* the label taken from the sample inside "if boolNewTechnique:" (:889-:895,
\* :1694-:1696)
CurrentTechnique_kept(new, s, cur) == cur
CurrentTechnique(new, s, cur) == IF new THEN TechniqueName(s) ELSE cur

\* "if boolAdd1ToTechIndex: intID_tech_add += 1" inside "if boolNewTechnique:"
\* (:884-:886)
NextTechAdd_everyBoundary(new, add1, add) == IF new THEN add + 1 ELSE add
NextTechAdd(new, add1, add) == IF new /\ add1 THEN add + 1 ELSE add

File(p, df) ==
  [id |-> FileNumber(p, intGlobalTechID, intID_tech, intID_tech_add),
   name |-> strCurrentTechnique, rows |-> df, dir |-> p,
   call |-> call, attempt |-> intAttempts_temp, held |-> bl, run |-> intID_tech]

\* the WebSocketResponse objects of the session, one per connection
Connections == {"ws1", "ws2"}

\* ---------------------------------------------------------------- Init
InitLocals(p, gid) ==
  /\ boolTryToConnect = TRUE
  /\ intAttempts_temp = 0
  /\ boolFirstTechnique = TRUE
  /\ boolNewTechnique = FALSE
  /\ boolAdd1ToTechIndex = FALSE
  /\ intID_tech = (IF p = "char" THEN None ELSE 0)
  /\ intID_tech_add = 0
  /\ fltTime_prev = 0
  /\ fltTime_curr = 0
  /\ dfData = <<>>
  /\ strCurrentTechnique = ""
  /\ intGlobalTechID = gid

Init ==
  /\ prog \in {"dep", "char", "device", "acq", "ws"}
  /\ mode \in (IF prog = "device" THEN DeviceModes
               ELSE IF prog = "ws" THEN {"free"} ELSE Modes)
  /\ todo = (IF mode \in {"free", "Jobs"} THEN <<>> ELSE Script[mode])
  /\ pc = (IF prog = "device" THEN "connecting"
           ELSE IF prog = "acq" THEN "acquiring"
           ELSE IF prog = "ws" THEN "serving" ELSE "loop")
  /\ attempts = 0
  /\ connected = FALSE
  /\ df_data = <<>>
  /\ tech_id = 0
  /\ tech_id_add = 0
  /\ current_technique = ""
  /\ first_technique = TRUE
  /\ job = 0
  /\ InitLocals(prog, 0)
  /\ files = <<>>
  /\ stream = <<>>
  /\ connects = 0
  /\ opened = FALSE
  /\ sleeps = 0
  /\ call = 1
  /\ startID = 0
  /\ writeFailed = FALSE
  /\ bl = FALSE
  /\ eos = FALSE
  /\ delivered = 0
  /\ earlier = <<>>
  /\ clients = {}
  /\ task = [c \in Connections |-> "none"]
  /\ sending = FALSE
  /\ visited = {}
  /\ size = 0
  /\ disconnected_clients = {}
  /\ removes = [c \in Connections |-> 0]
  /\ raised = {}

\* ------------------------------------------------------------- actions
\* except Exception: log, time.sleep(50), intAttempts_temp += 1; back to the
\* while test.  The exception has left the with block, which released the
\* connection.
Handler ==
  /\ mode = "free"
  /\ sleeps' = sleeps + 1
  /\ intAttempts_temp' = intAttempts_temp + 1
  /\ bl' = FALSE
  /\ pc' = "loop"

\* connect(), get_channel() and run_techniques() succeed
Connect ==
  /\ pc = "loop"
  /\ CanTry(boolTryToConnect, intAttempts_temp)
  /\ pc' = "streaming"
  /\ connects' = connects + 1
  /\ opened' = TRUE
  /\ UNCHANGED <<dev, server, prog, mode, todo, locals, files, stream, sleeps, call, startID,
                 writeFailed, delivered, earlier>>
  /\ bl' = TRUE
  /\ UNCHANGED eos

\* connect() (or get_channel) raises
ConnectFails ==
  /\ pc = "loop"
  /\ mode = "free"
  /\ CanTry(boolTryToConnect, intAttempts_temp)
  /\ connects' = connects + 1
  /\ opened' = opened
  /\ Handler
  /\ UNCHANGED <<dev, server, prog, mode, todo, boolTryToConnect, boolFirstTechnique,
                 boolNewTechnique, boolAdd1ToTechIndex, intID_tech, intID_tech_add,
                 fltTime_prev, fltTime_curr, dfData, strCurrentTechnique,
                 intGlobalTechID, files, stream, call, startID, writeFailed,
                 delivered, earlier>>
  /\ UNCHANGED eos

\* the samples the runner may yield next
Offered ==
  IF mode = "free"
    THEN IF delivered < MaxSamples THEN FreeSamples ELSE {}
    ELSE IF todo # <<>> THEN {Head(todo)} ELSE {}

\* One iteration of "for data_temp in runner" (:850-:900, :1660-:1699).
\* csvOK = FALSE: the to_csv of this iteration raises.
Body(s, csvOK) ==
  LET n == Len(stream) + 1
      first == IF boolFirstTechnique THEN TechniqueName(s) ELSE strCurrentTechnique
      new1 == boolNewTechnique \/ IsNewTechnique(prog, intID_tech, s)
      timed == ~s.process /\ s.hasTime
      prev == IF timed THEN fltTime_curr ELSE fltTime_prev
      curr == IF timed THEN s.time ELSE fltTime_curr
      restart == ~s.process /\ RestartDetected(prev, curr, s, intID_tech)
      add1 == boolAdd1ToTechIndex \/ restart
      new2 == new1 \/ restart
      writes == new2 /\ WritesFile(prog, dfData)
  IN
  /\ stream' = Append(stream, [tech_index |-> s.tech_index, process |-> s.process,
                               hasTime |-> s.hasTime, time |-> s.time,
                               attempt |-> intAttempts_temp, call |-> call,
                               same |-> (s.tech_index = intID_tech),
                               idchange |-> IsNewTechnique(prog, intID_tech, s),
                               restart |-> restart, opens |-> new2, done |-> csvOK,
                               tprev |-> prev, tcurr |-> curr, add |-> intID_tech_add])
  /\ delivered' = delivered + 1
  /\ todo' = (IF mode = "free" THEN todo ELSE Tail(todo))
  /\ boolFirstTechnique' = FALSE
  /\ fltTime_prev' = prev
  /\ fltTime_curr' = curr
  /\ IF csvOK
       THEN
         /\ files' = (IF writes
                        THEN Append(files, [File(prog, dfData) EXCEPT !.name = first])
                        ELSE files)
         /\ intGlobalTechID' = (IF writes /\ prog = "char"
                                  THEN NextGlobalTechID(intGlobalTechID)
                                  ELSE intGlobalTechID)
         /\ dfData' = Concat(IF new2 THEN <<>> ELSE dfData, Row(s, n))
         /\ boolNewTechnique' = FALSE
         /\ boolAdd1ToTechIndex' = (IF new2 THEN FALSE ELSE add1)
         /\ intID_tech_add' = (IF prog = "dep"
                                 THEN NextTechAdd(new2, add1, intID_tech_add)
                                 ELSE intID_tech_add)
         /\ intID_tech' = (IF new2 THEN s.tech_index ELSE intID_tech)
         /\ strCurrentTechnique' = CurrentTechnique(new2, s, first)
         /\ UNCHANGED <<pc, intAttempts_temp, sleeps, writeFailed, bl>>
       ELSE
         /\ writes
         /\ strCurrentTechnique' = first
         /\ boolNewTechnique' = new2
         /\ boolAdd1ToTechIndex' = add1
         /\ writeFailed' = TRUE
         /\ Handler
         /\ UNCHANGED <<files, intGlobalTechID, dfData, intID_tech_add, intID_tech>>
  /\ UNCHANGED <<dev, server, prog, mode, boolTryToConnect, connects, opened, call, startID, earlier,
                 eos>>

\* the runner yields a sample and the loop body runs to its end
Sample ==
  /\ pc = "streaming"
  /\ \E s \in Offered : Body(s, TRUE)

\* the runner yields a sample and the to_csv of the boundary raises
SampleWriteFails ==
  /\ pc = "streaming"
  /\ mode = "free"
  /\ \E s \in Offered : Body(s, FALSE)

\* next(runner) raises: the connection is lost mid-stream
StreamRaises ==
  /\ pc = "streaming"
  /\ mode = "free"
  /\ Handler
  /\ UNCHANGED <<dev, server, prog, mode, todo, boolTryToConnect, boolFirstTechnique,
                 boolNewTechnique, boolAdd1ToTechIndex, intID_tech, intID_tech_add,
                 fltTime_prev, fltTime_curr, dfData, strCurrentTechnique,
                 intGlobalTechID, files, stream, connects, opened, call, startID,
                 writeFailed, delivered, earlier>>
  /\ UNCHANGED eos

\* EndOfStream with the final save moved behind the with block
EndOfStream_closesFirst ==
  /\ pc = "streaming"
  /\ mode = "free" \/ todo = <<>>
  /\ LET writes == WritesFile(prog, dfData) IN
     /\ files' = (IF writes
                    THEN Append(files, [File(prog, dfData) EXCEPT !.held = FALSE])
                    ELSE files)
     /\ intGlobalTechID' = (IF writes /\ prog = "char"
                              THEN NextGlobalTechID(intGlobalTechID)
                              ELSE intGlobalTechID)
  /\ boolTryToConnect' = FALSE
  /\ pc' = "loop"
  /\ UNCHANGED <<dev, server, prog, mode, todo, intAttempts_temp, boolFirstTechnique,
                 boolNewTechnique, boolAdd1ToTechIndex, intID_tech, intID_tech_add,
                 fltTime_prev, fltTime_curr, dfData, strCurrentTechnique, stream,
                 connects, opened, sleeps, call, startID, writeFailed, delivered,
                 earlier>>
  /\ bl' = FALSE
  /\ eos' = TRUE

\* the runner is exhausted: the final save (:901-:907, :1701-:1709), after
\* which the with block ends and releases the connection
EndOfStream ==
  /\ pc = "streaming"
  /\ mode = "free" \/ todo = <<>>
  /\ LET writes == WritesFile(prog, dfData) IN
     /\ files' = (IF writes THEN Append(files, File(prog, dfData)) ELSE files)
     /\ intGlobalTechID' = (IF writes /\ prog = "char"
                              THEN NextGlobalTechID(intGlobalTechID)
                              ELSE intGlobalTechID)
  /\ boolTryToConnect' = FALSE
  /\ pc' = "loop"
  /\ UNCHANGED <<dev, server, prog, mode, todo, intAttempts_temp, boolFirstTechnique,
                 boolNewTechnique, boolAdd1ToTechIndex, intID_tech, intID_tech_add,
                 fltTime_prev, fltTime_curr, dfData, strCurrentTechnique, stream,
                 connects, opened, sleeps, call, startID, writeFailed, delivered,
                 earlier>>
  /\ bl' = FALSE
  /\ eos' = TRUE

\* the runner is exhausted and the final to_csv raises.  The deposition loop
\* has already cleared boolTryToConnect (:905 precedes :907); the function
\* clears it after the save (:1709).
EndWriteFails ==
  /\ pc = "streaming"
  /\ mode = "free"
  /\ WritesFile(prog, dfData)
  /\ boolTryToConnect' = (IF prog = "dep" THEN FALSE ELSE boolTryToConnect)
  /\ writeFailed' = TRUE
  /\ Handler
  /\ UNCHANGED <<dev, server, prog, mode, todo, boolFirstTechnique, boolNewTechnique,
                 boolAdd1ToTechIndex, intID_tech, intID_tech_add, fltTime_prev,
                 fltTime_curr, dfData, strCurrentTechnique, intGlobalTechID, files,
                 stream, connects, opened, call, startID, delivered, earlier>>
  /\ eos' = TRUE

\* KeyboardInterrupt between two samples (Ctrl-C while the loop waits for the
\* next data_temp).  It is a BaseException: "except Exception" (:909, :1711)
\* does not catch it, the with statement releases the connection on the way
\* out, and the script ends with dfData unsaved.
Cancel ==
  /\ pc = "streaming"
  /\ mode = "free"
  /\ pc' = "cancelled"
  /\ bl' = FALSE
  /\ UNCHANGED <<dev, server, prog, mode, todo, locals, files, stream, connects, opened, sleeps, call,
                 startID, writeFailed, delivered, earlier, eos>>

\* the while test fails: "Finished one batch of characterization." and
\* return intGlobalTechID (:1717), "End of electrodeposition experiment!" (:916)
LoopExit ==
  /\ pc = "loop"
  /\ ~CanTry(boolTryToConnect, intAttempts_temp)
  /\ pc' = "finished"
  /\ UNCHANGED <<dev, server, prog, mode, todo, locals, files, stream, connects, opened, sleeps, call,
                 startID, writeFailed, delivered, earlier>>
  /\ UNCHANGED <<bl, eos>>

\* the next job request: intGlobalTechID = run_and_save_characterization(...,
\* intGlobalTechID) (:1723-:1745)
NextCall ==
  /\ pc = "finished"
  /\ prog = "char"
  /\ mode = "free"
  /\ call < MaxCalls
  /\ pc' = "loop"
  /\ call' = call + 1
  /\ startID' = intGlobalTechID
  /\ boolTryToConnect' = TRUE
  /\ intAttempts_temp' = 0
  /\ boolFirstTechnique' = TRUE
  /\ boolNewTechnique' = FALSE
  /\ boolAdd1ToTechIndex' = FALSE
  /\ intID_tech' = None
  /\ fltTime_prev' = 0
  /\ fltTime_curr' = 0
  /\ dfData' = <<>>
  /\ strCurrentTechnique' = ""
  /\ connects' = 0
  /\ opened' = FALSE
  /\ sleeps' = 0
  /\ writeFailed' = FALSE
  /\ files' = <<>>
  /\ stream' = <<>>
  /\ earlier' = earlier \o [i \in 1..Len(files) |-> files[i].id]
  /\ UNCHANGED <<dev, server, prog, mode, todo, intID_tech_add, intGlobalTechID, delivered>>
  /\ bl' = FALSE
  /\ eos' = FALSE

\* ---------------------------------------------- BiologicDevice.connect
\* "while attempts < self.config.max_connection_attempts"
DeviceCanTry_inclusive(a) == a <= max_connection_attempts
DeviceCanTry(a) == a < max_connection_attempts

\* connect() and get_channel() succeed: self.connected = True, return True
DeviceConnect ==
  /\ prog = "device" /\ pc = "connecting"
  /\ DeviceCanTry(attempts)
  /\ connected' = TRUE
  /\ pc' = "connected"
  /\ connects' = connects + 1
  /\ opened' = TRUE
  /\ UNCHANGED <<attempts, runlocals, server, prog, mode, todo, locals, files, stream, sleeps,
                 call, startID, writeFailed, delivered, earlier>>
  /\ UNCHANGED <<bl, eos>>

\* connect() raises: attempts += 1, log, time.sleep(retry_delay)
DeviceConnectFails ==
  /\ prog = "device" /\ pc = "connecting"
  /\ DeviceCanTry(attempts)
  /\ attempts' = attempts + 1
  /\ sleeps' = sleeps + 1
  /\ connects' = connects + 1
  /\ UNCHANGED <<connected, runlocals, server, prog, mode, todo, pc, locals, files, stream,
                 opened, call, startID, writeFailed, delivered, earlier>>
  /\ UNCHANGED <<bl, eos>>

\* the while test fails: raise ConnectionError
DeviceRaise ==
  /\ prog = "device" /\ pc = "connecting"
  /\ ~DeviceCanTry(attempts)
  /\ pc' = "raised"
  /\ UNCHANGED <<dev, server, prog, mode, todo, locals, files, stream, connects, opened,
                 sleeps, call, startID, writeFailed, delivered, earlier>>
  /\ UNCHANGED <<bl, eos>>

\* ------------------------------------------ BiologicDevice.run_techniques
\* run_techniques called after connect() has raised: "if not
\* self.is_connected: raise ConnectionError" (:79-:80), before the try block
DeviceRunRefused ==
  /\ prog = "device" /\ pc = "raised"
  /\ ~connected
  /\ pc' = "refused"
  /\ UNCHANGED <<dev, server, prog, mode, todo, locals, files, stream, connects, opened,
                 sleeps, call, startID, writeFailed, delivered, earlier, bl, eos>>

\* _get_technique_name(data) for a sample of the job's technique list
GetTechniqueName(j, s) == job_techniques[j][s.tech_index + 1]

\* ExperimentDataManager.save_technique_data: one to_csv under the name
\* "{experiment_id}_{technique_id}_{technique_name}.csv" in base_dir/data_type
save_technique_data(fs, data, technique_id, technique_name, data_type) ==
  Append(fs, [id |-> technique_id, name |-> technique_name, rows |-> data,
              dir |-> data_type, call |-> job, attempt |-> 0])

DeviceOther == <<attempts, connected, server, prog, mode, locals, connects, opened, sleeps, call,
                 startID, earlier, bl, eos>>

\* self.biologic.run_techniques(techniques, "characterization") of the next
\* job: is_connected holds, the locals are initialised, the runner is made
DeviceRun ==
  /\ prog = "device" /\ pc = "connected"
  /\ connected
  /\ job < JobCount
  /\ job' = job + 1
  /\ df_data' = <<>>
  /\ tech_id' = 0
  /\ tech_id_add' = 0
  /\ current_technique' = ""
  /\ first_technique' = TRUE
  /\ todo' = (IF mode = "Jobs" THEN JobStream ELSE todo)
  /\ pc' = "running"
  /\ UNCHANGED <<DeviceOther, files, stream, delivered, writeFailed>>

\* One iteration of "for data in runner" (:93-:125).
\* saveOK = FALSE: save_technique_data raises, run_techniques raises
\* OperationError.
DeviceBody(s, saveOK) ==
  LET n == Len(stream) + 1
      first == IF first_technique THEN GetTechniqueName(job, s) ELSE current_technique
      new == s.tech_index # tech_id
      saves == new /\ df_data # <<>>
  IN
  /\ stream' = Append(stream, [tech_index |-> s.tech_index, process |-> s.process,
                               hasTime |-> s.hasTime, time |-> s.time,
                               attempt |-> 0, call |-> job, done |-> saveOK])
  /\ delivered' = delivered + 1
  /\ todo' = (IF mode = "free" THEN todo ELSE Tail(todo))
  /\ first_technique' = FALSE
  /\ IF saveOK
       THEN
         /\ files' = (IF saves
                        THEN save_technique_data(files, df_data, tech_id + tech_id_add,
                                                 first, "characterization")
                        ELSE files)
         /\ df_data' = Concat(IF saves THEN <<>> ELSE df_data, Row(s, n))
         /\ tech_id' = (IF new THEN s.tech_index ELSE tech_id)
         /\ current_technique' = (IF new THEN GetTechniqueName(job, s) ELSE first)
         /\ UNCHANGED <<pc, writeFailed>>
       ELSE
         /\ saves
         /\ current_technique' = first
         /\ writeFailed' = TRUE
         /\ pc' = "op_error"
         /\ UNCHANGED <<files, df_data, tech_id>>
  /\ UNCHANGED <<DeviceOther, tech_id_add, job>>

DeviceSample ==
  /\ prog = "device" /\ pc = "running"
  /\ \E s \in Offered : DeviceBody(s, TRUE)

DeviceSaveFails ==
  /\ prog = "device" /\ pc = "running"
  /\ mode = "free"
  /\ \E s \in Offered : DeviceBody(s, FALSE)

\* next(runner) raises: "except Exception as e: raise OperationError(...)"
DeviceStreamRaises_saves ==
  /\ prog = "device" /\ pc = "running"
  /\ mode = "free"
  /\ pc' = "op_error"
  /\ files' = save_technique_data(files, df_data, tech_id + tech_id_add,
                                  current_technique, "characterization")
  /\ UNCHANGED <<DeviceOther, runlocals, todo, stream, delivered, writeFailed>>
DeviceStreamRaises ==
  /\ prog = "device" /\ pc = "running"
  /\ mode = "free"
  /\ pc' = "op_error"
  /\ UNCHANGED <<DeviceOther, runlocals, todo, files, stream, delivered, writeFailed>>

\* the runner is exhausted: "Save final dataset" (:127-:134), and return
DeviceEnd ==
  /\ prog = "device" /\ pc = "running"
  /\ mode = "free" \/ todo = <<>>
  /\ files' = (IF df_data # <<>>
                 THEN save_technique_data(files, df_data, tech_id + tech_id_add,
                                          current_technique, "characterization")
                 ELSE files)
  /\ pc' = "connected"
  /\ UNCHANGED <<DeviceOther, runlocals, todo, stream, delivered, writeFailed>>

\* the final save_technique_data raises
DeviceEndSaveFails ==
  /\ prog = "device" /\ pc = "running"
  /\ mode = "free"
  /\ df_data # <<>>
  /\ writeFailed' = TRUE
  /\ pc' = "op_error"
  /\ UNCHANGED <<DeviceOther, runlocals, todo, files, stream, delivered>>

\* --------------------------- DataAcquisitionModule with a DataStorage handler
\* DataStorage.save_data: one to_csv of the processed sample under the name
\* "{experiment_id}_{technique_id}_{technique_name}.csv" in
\* characterization_path
save_data(fs, data, technique_id, technique_name) ==
  Append(fs, [id |-> technique_id, name |-> technique_name, rows |-> data,
              dir |-> "characterization", call |-> call, attempt |-> 0])

\* self.data_handlers after ExperimentController.__init__: add_handler
\* (:37-:39) appends the visualizer, then the data storage (:361-:362)
data_handlers == <<"visualizer", "data_storage">>

\* notify_handlers with the except clause left out: the first failing
\* handler ends the loop
RECURSIVE notify_handlers_raises(_, _)
notify_handlers_raises(handlers, failing) ==
  IF handlers = <<>> THEN <<>>
  ELSE IF Head(handlers) \in failing THEN <<Head(handlers)>>
  ELSE <<Head(handlers)>> \o notify_handlers_raises(Tail(handlers), failing)

\* notify_handlers (:41-:47): the handlers whose handle_data is awaited, in
\* order; an exception of a handler is logged and the loop goes on
RECURSIVE notify_handlers(_, _)
notify_handlers(handlers, failing) ==
  IF handlers = <<>> THEN <<>>
  ELSE <<Head(handlers)>> \o notify_handlers(Tail(handlers), failing)

\* One iteration of "async for data in runner": notify_handlers(data), then
\* yield data.  failing: the handlers whose handle_data raises for this
\* sample, which notify_handlers logs and swallows.
AcqBody(s, failing) ==
  LET n == Len(stream) + 1
      notified == notify_handlers(data_handlers, failing)
      handlerOK == /\ \E k \in 1..Len(notified) : notified[k] = "data_storage"
                   /\ "data_storage" \notin failing
  IN
  /\ stream' = Append(stream, [tech_index |-> s.tech_index, process |-> s.process,
                               hasTime |-> s.hasTime, time |-> s.time,
                               attempt |-> 0, call |-> call, done |-> handlerOK,
                               failed |-> failing,
                               events |-> Append(notified, "yield")])
  /\ delivered' = delivered + 1
  /\ todo' = (IF mode = "free" THEN todo ELSE Tail(todo))
  /\ files' = (IF handlerOK
                 THEN save_data(files, <<Row(s, n)>>, s.tech_index, TechniqueName(s))
                 ELSE files)
  /\ UNCHANGED <<dev, server, prog, mode, pc, locals, connects, opened, sleeps, call, startID,
                 writeFailed, earlier, bl, eos>>

AcqSample ==
  /\ prog = "acq" /\ pc = "acquiring"
  /\ \E s \in Offered : AcqBody(s, {})

AcqHandlerFails ==
  /\ prog = "acq" /\ pc = "acquiring"
  /\ mode = "free"
  /\ \E s \in Offered :
       \E failing \in SUBSET {data_handlers[k] : k \in 1..Len(data_handlers)} :
         failing # {} /\ AcqBody(s, failing)

\* the runner raises: "Data acquisition failed" is logged, the exception
\* is raised again
AcqStreamRaises ==
  /\ prog = "acq" /\ pc = "acquiring"
  /\ mode = "free"
  /\ pc' = "acq_raised"
  /\ UNCHANGED <<dev, server, prog, mode, todo, locals, files, stream, connects, opened, sleeps,
                 call, startID, writeFailed, delivered, earlier>>
  /\ UNCHANGED <<bl, eos>>

\* the runner is exhausted: the generator returns
AcqEnd ==
  /\ prog = "acq" /\ pc = "acquiring"
  /\ mode = "free" \/ todo = <<>>
  /\ pc' = "acq_done"
  /\ UNCHANGED <<dev, server, prog, mode, todo, locals, files, stream, connects, opened, sleeps,
                 call, startID, writeFailed, delivered, earlier>>
  /\ UNCHANGED <<bl, eos>>

\* --------------------------------------------------------- WebSocketServer
\* (websocket_server.py:85-154, enhanced_websocket_server.py:107-199; the
\* event loop runs one task at a time and switches tasks at an await)
WsOther == <<dev, prog, mode, todo, pc, locals, files, stream, connects, opened, sleeps,
             call, startID, writeFailed, delivered, earlier, bl, eos>>

\* self.clients.remove(c): KeyError when c is not in the set
Remove(s, c) == [set |-> s \ {c}, ok |-> c \in s]

\* websocket_handler up to its message loop: ws.prepare, self.clients.add(ws)
WsConnect ==
  /\ prog = "ws"
  /\ \E c \in Connections :
       /\ task[c] = "none"
       /\ clients' = clients \cup {c}
       /\ task' = [task EXCEPT ![c] = "open"]
  /\ UNCHANGED <<WsOther, sending, visited, size, disconnected_clients, removes, raised>>

\* the peer goes away: the transport is closing, the handler task has not
\* run yet
WsDrop ==
  /\ prog = "ws"
  /\ \E c \in Connections :
       /\ task[c] = "open"
       /\ task' = [task EXCEPT ![c] = "dropped"]
  /\ UNCHANGED <<WsOther, clients, sending, visited, size, disconnected_clients,
                 removes, raised>>

\* the handler task leaves "async for msg in ws" (the peer went away, or it
\* sent 'close'): "finally: self.clients.remove(ws)"
WsCleanup ==
  /\ prog = "ws"
  /\ \E c \in Connections :
       /\ task[c] \in {"open", "dropped"}
       /\ clients' = Remove(clients, c).set
       /\ removes' = [removes EXCEPT ![c] = @ + 1]
       /\ task' = [task EXCEPT ![c] = IF Remove(clients, c).ok THEN "closed"
                                      ELSE "key_error"]
       /\ raised' = (IF Remove(clients, c).ok THEN raised
                     ELSE raised \cup {<<"KeyError", "websocket_handler", c>>})
  /\ UNCHANGED <<WsOther, sending, visited, size, disconnected_clients>>

\* broadcast() with clients: iter(self.clients), disconnected_clients = set()
BroadcastStart ==
  /\ prog = "ws"
  /\ ~sending
  /\ clients # {}
  /\ sending' = TRUE
  /\ visited' = {}
  /\ size' = Cardinality(clients)
  /\ disconnected_clients' = {}
  /\ UNCHANGED <<WsOther, clients, task, removes, raised>>

\* the iterator yields a client and "await client.send_str(message)" ends:
\* it raises when the transport is closing.  After a removal and an addition
\* that leave the size as it was, the iterator goes on with a client it has
\* not yielded yet.
BroadcastSend ==
  /\ prog = "ws"
  /\ sending
  /\ Cardinality(clients) = size
  /\ \E c \in clients \ visited :
       /\ visited' = visited \cup {c}
       /\ disconnected_clients' = (IF task[c] = "open" THEN disconnected_clients
                                   ELSE disconnected_clients \cup {c})
  /\ UNCHANGED <<WsOther, clients, task, sending, size, removes, raised>>

\* the iterator finds the set changed: RuntimeError("Set changed size during
\* iteration") leaves broadcast()
BroadcastSetChanged ==
  /\ prog = "ws"
  /\ sending
  /\ Cardinality(clients) # size
  /\ sending' = FALSE
  /\ raised' = raised \cup {<<"RuntimeError", "broadcast", "">>}
  /\ UNCHANGED <<WsOther, clients, task, visited, size, disconnected_clients, removes>>

\* the iterator is exhausted: "for client in disconnected_clients:
\* self.clients.remove(client)", which has no await.  When a client is
\* missing, the clients before it in the iteration order of the local set, an
\* order the program does not fix, have been removed.
BroadcastRemove ==
  /\ prog = "ws"
  /\ sending
  /\ Cardinality(clients) = size
  /\ clients \ visited = {}
  /\ sending' = FALSE
  /\ IF \A c \in disconnected_clients : Remove(clients, c).ok
       THEN /\ clients' = clients \ disconnected_clients
            /\ removes' = [c \in Connections |->
                             IF c \in disconnected_clients THEN removes[c] + 1
                                                           ELSE removes[c]]
            /\ raised' = raised
       ELSE \E missing \in disconnected_clients \ clients :
              \E before \in SUBSET (disconnected_clients \cap clients) :
                /\ clients' = clients \ before
                /\ removes' = [c \in Connections |->
                                 IF c \in before \cup {missing} THEN removes[c] + 1
                                                                ELSE removes[c]]
                /\ raised' = raised \cup {<<"KeyError", "broadcast", missing>>}
  /\ UNCHANGED <<WsOther, task, visited, size, disconnected_clients>>

Next ==
  \/ WsConnect
  \/ WsDrop
  \/ WsCleanup
  \/ BroadcastStart
  \/ BroadcastSend
  \/ BroadcastSetChanged
  \/ BroadcastRemove
  \/ AcqSample
  \/ AcqHandlerFails
  \/ AcqStreamRaises
  \/ AcqEnd
  \/ DeviceConnect
  \/ DeviceConnectFails
  \/ DeviceRaise
  \/ DeviceRunRefused
  \/ DeviceRun
  \/ DeviceSample
  \/ DeviceSaveFails
  \/ DeviceStreamRaises
  \/ DeviceEnd
  \/ DeviceEndSaveFails
  \/ Connect
  \/ ConnectFails
  \/ Sample
  \/ SampleWriteFails
  \/ StreamRaises
  \/ EndOfStream
  \/ EndWriteFails
  \/ LoopExit
  \/ Cancel
  \/ NextCall

Spec == Init /\ [][Next]_vars

\* ------------------------------------------------------ derived histories
\* the rows of the files of this call, in write order
RECURSIVE Flatten(_)
Flatten(fs) == IF fs = <<>> THEN <<>> ELSE Head(fs).rows \o Flatten(Tail(fs))

\* the rows of the samples delivered to this call, in arrival order
InputRows == [i \in 1..Len(stream) |-> Row(stream[i], i)]

\* the files of this call as sequences of arrival numbers, their sizes, numbers
Batches == [k \in 1..Len(files) |-> [j \in 1..Len(files[k].rows) |-> files[k].rows[j].n]]
Sizes == [k \in 1..Len(files) |-> Len(files[k].rows)]
Numbers == [k \in 1..Len(files) |-> files[k].id]

\* the maximal blocks of equal consecutive run ids of st[1..i]
RECURSIVE Blocks(_, _)
Blocks(st, i) ==
  IF i = 0 THEN <<>>
  ELSE IF i = 1 THEN << <<1>> >>
  ELSE LET b == Blocks(st, i - 1) IN
       IF st[i].tech_index = st[i - 1].tech_index
         THEN [b EXCEPT ![Len(b)] = Append(@, i)]
         ELSE Append(b, <<i>>)

\* every sample is raw and timed, and time never decreases inside a block
MonotoneTimed(st) ==
  /\ \A i \in 1..Len(st) : ~st[i].process /\ st[i].hasTime
  /\ \A i \in 2..Len(st) :
       st[i].tech_index = st[i - 1].tech_index => st[i].time >= st[i - 1].time

StrictlyIncreasing(q) == \A i, j \in 1..Len(q) : i < j => q[i] < q[j]

\* the call has finished after one attempt that raised nothing
OneCleanAttempt == pc = "finished" /\ intAttempts_temp = 0 /\ ~boolTryToConnect

\* ------------------------------------------------------------- claims
\* C1: when run_and_save_characterization consumes a stream in a single
\* attempt without an exception, the rows of the flushed batches, taken in
\* flush order, are exactly the samples' rows in arrival order.
C1_Completeness ==
  (prog = "char" /\ OneCleanAttempt) => Flatten(files) = InputRows

C1_Witness ==
  /\ prog = "char" /\ OneCleanAttempt
  /\ Len(files) >= 2
  /\ \E k \in 1..Len(files) : Len(files[k].rows) >= 2

\* C2: for raw timed samples whose time never decreases inside a block of
\* equal consecutive run ids, the flushed batches are exactly the maximal
\* blocks; run ids [0,0,0,1,1,2] give sizes [3,2,1].
C2_OneBatchPerBlock ==
  (prog = "char" /\ OneCleanAttempt)
    => /\ MonotoneTimed(stream) => Batches = Blocks(stream, Len(stream))
       /\ mode = "P3" => Sizes = <<3, 2, 1>>

C2_Witness ==
  /\ prog = "char" /\ OneCleanAttempt /\ mode = "P3"
  /\ MonotoneTimed(stream)
  /\ Len(files) = 3

C4_StrictlyIncreasing ==
  prog = "char"
    => /\ StrictlyIncreasing(earlier \o Numbers)
       /\ \A i \in 1..Len(earlier) : earlier[i] < startID
       /\ \A k \in 1..Len(files) : files[k].id < intGlobalTechID

C4_Witness ==
  /\ prog = "char" /\ call = 2 /\ pc = "finished"
  /\ earlier # <<>>
  /\ \E k \in 1..Len(files) : files[k].attempt > 0

\* C5: run_and_save_characterization numbers the batches of a call
\* startID, startID+1, ... in flush order whatever the run ids are; 10
\* samples of run 0, 5 of run 1 and 3 of run 0 give sizes [10,5,3] and
\* numbers [0,1,2].
C5_ConsecutiveNumbers ==
  prog = "char"
    => /\ \A k \in 1..Len(files) : files[k].id = startID + k - 1
       /\ (mode = "Scenario" /\ OneCleanAttempt)
            => Sizes = <<10, 5, 3>> /\ Numbers = <<0, 1, 2>>

C5_Witness ==
  /\ prog = "char" /\ mode = "Scenario" /\ OneCleanAttempt
  /\ Len(files) = 3
  /\ stream[16].tech_index = stream[1].tech_index

\* C6 as stated: after a mid-stream exception the open batch is discarded,
\* so every row of a file was received in the attempt that wrote the file.
C6_Discarded ==
  prog = "char"
    => \A k \in 1..Len(files) : \A j \in 1..Len(files[k].rows) :
         stream[files[k].rows[j].n].attempt = files[k].attempt

\* C7 as stated: once a to_csv has raised, the loop neither retries nor
\* finishes normally (the exception leaves the loop).
C7_WriteFailurePropagates ==
  writeFailed => pc \notin {"loop", "streaming", "finished"}

\* C8 as stated: when all intMaxAttempts attempts have failed, the run does
\* not end normally.
C8_TerminalFailure ==
  pc = "finished" => intAttempts_temp < intMaxAttempts

\* C9: when every call of connect() raises, each retry loop calls connect()
\* exactly intMaxAttempts (max_connection_attempts) times, then stops, and
\* no file is written.
C9_RetryBound ==
  /\ (pc = "finished" /\ ~opened)
       => connects = intMaxAttempts /\ files = <<>>
  /\ (pc = "raised" /\ ~opened)
       => connects = max_connection_attempts /\ files = <<>>

C9_Witness ==
  /\ pc = "finished" /\ ~opened
  /\ connects = 3
  /\ sleeps = connects

\* C10: run_and_save_characterization writes no file from an empty table
\* and consumes an id only with a file; a call that receives no sample
\* writes nothing and returns the id it was given.
C10_EmptyFlushNoOp ==
  prog = "char"
    => /\ \A k \in 1..Len(files) : files[k].rows # <<>>
       /\ intGlobalTechID = startID + Len(files)
       /\ stream = <<>> => files = <<>> /\ intGlobalTechID = startID

C10_Witness ==
  /\ prog = "char" /\ pc = "finished" /\ ~boolTryToConnect
  /\ opened /\ stream = <<>>
  /\ call = 2 /\ startID > 0

\* ------------------------------------------------------------------- C11
\* C11: every row of a written file comes from a sample whose technique
\* kind (the kind of the technique its run id selects in the submitted
\* list) is the kind the file is labelled with, in both loops and whatever
\* reconnects happened in between.
C11_KindPurity ==
  prog \in {"dep", "char"} =>
    \A k \in 1..Len(files) : \A j \in 1..Len(files[k].rows) :
      TechniqueName(stream[files[k].rows[j].n]) = files[k].name

\* a labelled file whose rows were collected in two different attempts
C11_Witness ==
  /\ prog \in {"dep", "char"}
  /\ \E k \in 1..Len(files) :
       /\ Len(files[k].rows) >= 2
       /\ stream[files[k].rows[1].n].attempt # stream[files[k].rows[2].n].attempt
       /\ files[k].name = TechniqueName(stream[files[k].rows[2].n])

\* ------------------------------------------------------------------- C12
\* C12: in the deposition loop, which numbers a file intID_tech +
\* intID_tech_add, no two files written in one session carry the same
\* number, whatever the run ids and however many reconnects.
C12_DistinctNumbers ==
  prog = "dep" =>
    \A k \in 1..Len(files) : \A l \in 1..Len(files) :
      k # l => files[k].id # files[l].id

\* the same with non-empty tables only: the run ids 0, 1, 0 of the Scenario
\* stream give the numbers 0, 1, 0
C12_DistinctNumbersNonEmpty ==
  prog = "dep" =>
    \A k \in 1..Len(files) : \A l \in 1..Len(files) :
      (k # l /\ files[k].rows # <<>> /\ files[l].rows # <<>>) => files[k].id # files[l].id

\* ------------------------------------------------------------------- C13
\* the rows handed to the data manager so far, in the order handed over
SavedRows == Flatten(files)

\* the rows of the samples whose iteration ran to its end
AppendedRows == SelectSeq(InputRows, LAMBDA r : stream[r.n].done)

\* C13: when an exception ends BiologicDevice.run_techniques (state
\* "op_error": OperationError was raised), nothing runs any more (no retry),
\* the batches handed to the data manager before the failure are all there
\* and in order, and no row of the in-progress table df_data has been
\* handed over.
C13_FailFast ==
  (prog = "device" /\ pc = "op_error") =>
    /\ ~ENABLED Next
    /\ SavedRows \o df_data = AppendedRows
    /\ \A j \in 1..Len(df_data) : \A k \in 1..Len(files) : \A i \in 1..Len(files[k].rows) :
         files[k].rows[i] # df_data[j]

\* the failure comes after a batch was saved and while another is open
C13_Witness ==
  /\ prog = "device" /\ pc = "op_error"
  /\ files # <<>>
  /\ df_data # <<>>

\* ------------------------------------------------------------------- C14
\* the file name save_technique_data builds (the experiment id is the same
\* for the whole session)
FileName(f) == <<f.dir, f.id, f.name>>

\* C14: over the three jobs of ExperimentManager.run_characterization no two
\* saved batches get the same file name.
C14_DistinctNames ==
  prog = "device" =>
    \A k \in 1..Len(files) : \A l \in 1..Len(files) :
      k # l => FileName(files[k]) # FileName(files[l])

\* ------------------------------------------------------------------- C15
\* what the file of that name holds after the writes fs: to_csv replaces
\* the file, so it is the table of the last write under the name
DiskContent(fs, name) ==
  LET ks == {k \in 1..Len(fs) : FileName(fs[k]) = name} IN
  IF ks = {} THEN <<>> ELSE fs[CHOOSE k \in ks : \A m \in ks : m <= k].rows

\* the rows of the samples of run id r, in arrival order
RunRows(r) == SelectSeq(InputRows, LAMBDA row : stream[row.n].tech_index = r)

\* C15: after a stream handled by DataAcquisitionModule.start_acquisition
\* with a DataStorage handler has ended (every handler call having
\* succeeded), the output file of each technique run holds every sample of
\* that run, in arrival order.
C15_FileHoldsRun ==
  (prog = "acq" /\ pc = "acq_done" /\ \A i \in 1..Len(stream) : stream[i].done) =>
    \A i \in 1..Len(stream) :
      DiskContent(files, <<"characterization", stream[i].tech_index, TechniqueName(stream[i])>>)
        = RunRows(stream[i].tech_index)

\* ------------------------------------------------------------------- C16
\* C16: a sample without a time field whose run id equals the last recorded
\* run id never starts a new batch, whatever came before it.
C16_UntimedSameRun ==
  prog \in {"dep", "char"} =>
    \A i \in 1..Len(stream) :
      (~stream[i].hasTime /\ stream[i].same) => ~stream[i].opens

\* ------------------------------------------------------------------- C17
\* raw samples with a time field
IsTimed(x) == ~x.process /\ x.hasTime

\* the raw timed samples delivered before sample i of this call
TimedBefore(i) == {j \in 1..(i - 1) : IsTimed(stream[j])}

\* the time of the most recent of them
PreviousTime(i) == stream[CHOOSE j \in TimedBefore(i) : \A m \in TimedBefore(i) : m <= j].time

\* no boundary was left pending by an iteration that did not run to its end
NothingPending(i) == i = 1 \/ stream[i - 1].done

TimesBefore(i) == IF i = 1 THEN <<0, 0>> ELSE <<stream[i - 1].tprev, stream[i - 1].tcurr>>

\* the rows kept so far: those written and those of the open table
KeptRows == Flatten(files) \o dfData

AddAfter(i) == IF i = Len(stream) THEN intID_tech_add ELSE stream[i + 1].add

\* sample i detected a restart, or inherits one whose flush did not
\* complete (the to_csv of the iteration before raised)
RECURSIVE RestartCarried(_)
RestartCarried(i) ==
  stream[i].restart \/ (i > 1 /\ ~stream[i - 1].done /\ RestartCarried(i - 1))

\* C19: in the deposition loop intID_tech_add grows by exactly 1 at each
\* completed flush caused by a detected restart, and is left unchanged by
\* every sample that joins the open batch and by every boundary caused by
\* a run-id change alone.
C19_TechAdd ==
  prog = "dep" =>
    \A i \in 1..Len(stream) :
      AddAfter(i) =
        IF stream[i].done /\ stream[i].opens /\ RestartCarried(i)
          THEN stream[i].add + 1
          ELSE stream[i].add

\* a run-id boundary that leaves the offset alone, then a restart boundary
\* that raises it
C19_Witness ==
  /\ prog = "dep"
  /\ \E i \in 1..Len(stream) : \E j \in 1..Len(stream) :
       /\ i < j
       /\ stream[i].done /\ stream[i].opens /\ stream[i].idchange /\ AddAfter(i) = stream[i].add
       /\ stream[j].done /\ stream[j].restart /\ AddAfter(j) = stream[j].add + 1

\* ------------------------------------------------------------------- C20
\* C20: the deposition loop never writes a file from an empty table, neither
\* at a boundary (also when the first sample's run id is not 0) nor at the
\* end of a stream without samples.
C20_NoEmptyFile ==
  prog = "dep" => \A k \in 1..Len(files) : files[k].rows # <<>>

\* the boundary case alone: files written by an iteration of the loop
C20_NoEmptyBoundaryFile ==
  (prog = "dep" /\ pc = "streaming") => \A k \in 1..Len(files) : files[k].rows # <<>>

\* ------------------------------------------------------------------- C21
\* C21: each retry loop makes at most intMaxAttempts attempts in total (a
\* failed connect and a failure in mid-stream each count), and once the
\* runner of an attempt has been exhausted no further attempt is made: the
\* connection is released and the while test fails.
C21_AttemptsBounded ==
  prog \in {"dep", "char"} =>
    /\ connects <= intMaxAttempts
    /\ eos => ~bl /\ ~(pc = "loop" /\ CanTry(boolTryToConnect, intAttempts_temp))

\* the same for the deposition loop alone, which clears boolTryToConnect
\* (:905) before its final save (:907)
C21_DepositionLoop ==
  prog = "dep" =>
    /\ connects <= intMaxAttempts
    /\ eos => ~bl /\ ~(pc = "loop" /\ CanTry(boolTryToConnect, intAttempts_temp))

\* every call ends: the samples still to come in this attempt, and the
\* attempts still allowed, ordered lexicographically
C21_Remaining == IF mode = "free" THEN MaxSamples - delivered ELSE Len(todo)

C21_Longest ==
  CHOOSE n \in {Len(Script[m]) : m \in DOMAIN Script} :
    \A m \in DOMAIN Script : Len(Script[m]) <= n

C21_Weight == MaxSamples + C21_Longest + 3

C21_Measure ==
  CASE pc = "loop" /\ boolTryToConnect
                        -> C21_Weight * (intMaxAttempts - intAttempts_temp + 1)
    [] pc = "loop" /\ ~boolTryToConnect
                        -> 1
    [] pc = "streaming" -> C21_Weight * (intMaxAttempts - intAttempts_temp)
                             + 2 + C21_Remaining
    [] OTHER            -> 0

\* each step of a call lowers the measure, which is never negative
C21_Terminates ==
  [][(prog \in {"dep", "char"} /\ pc \in {"loop", "streaming"})
       => C21_Measure' < C21_Measure]_vars

\* ------------------------------------------------------------------- C22
\* C22: the backoff delay is waited only before a retry: a run whose
\* intMaxAttempts (max_connection_attempts) attempts all fail has slept one
\* time fewer than it has attempted, with no sleep after the final failure.
C22_BackoffBeforeRetry ==
  /\ (pc = "finished" /\ intAttempts_temp = intMaxAttempts)
       => sleeps = intMaxAttempts - 1
  /\ pc = "raised" => sleeps = max_connection_attempts - 1

\* ------------------------------------------------------------------- C23
\* a step that leaves the with block without an exception: the connection
\* is released and no attempt is counted
C23_Closes ==
  /\ prog \in {"dep", "char"}
  /\ bl /\ ~bl'
  /\ pc' = "loop"
  /\ intAttempts_temp' = intAttempts_temp

\* C23: at end-of-stream the open batch is flushed exactly once, and before
\* the connection is released: every file is written while the connection
\* is held, the step that closes the connection adds exactly one file, with
\* the rows of the open batch (none when run_and_save_characterization has
\* an empty batch), and no file is written while the connection is released.
C23_FinalFlush ==
  /\ [](prog \in {"dep", "char"} => \A k \in 1..Len(files) : files[k].held)
  /\ [][/\ C23_Closes =>
            IF WritesFile(prog, dfData)
              THEN /\ Len(files') = Len(files) + 1
                   /\ SubSeq(files', 1, Len(files)) = files
                   /\ files'[Len(files')].rows = dfData
              ELSE files' = files
        /\ (prog \in {"dep", "char"} /\ ~bl /\ call' = call) => files' = files]_vars

\* a stream with a boundary has ended: the last file holds the open batch
C23_Witness ==
  /\ prog \in {"dep", "char"}
  /\ eos /\ ~bl /\ pc = "loop" /\ ~boolTryToConnect /\ ~writeFailed
  /\ Len(files) = 2
  /\ dfData # <<>>
  /\ files[2].rows = dfData /\ files[2].held

\* ------------------------------------------------------------------- C24
\* C24: when run_and_save_characterization is cancelled between two samples
\* while a non-empty batch is open, that batch has been flushed to a file
\* before the connection is released.
C24_CancelFlushes ==
  (prog = "char" /\ pc = "cancelled" /\ dfData # <<>>)
    => \E k \in 1..Len(files) : files[k].rows = dfData /\ files[k].held

\* ------------------------------------------------------------------- C25
\* the last two times seen among the first i samples of a stream: only a
\* data sample that carries a time moves them
RECURSIVE C25_Times(_, _)
C25_Times(in, i) ==
  IF i = 0 THEN <<0, 0>>
  ELSE LET t == C25_Times(in, i - 1) IN
       IF ~in[i].process /\ in[i].hasTime THEN <<t[2], in[i].time>> ELSE t

\* sample i of the stream opens a batch: a function of the samples alone
C25_Opens(in, i) ==
  \/ i = 1
  \/ in[i].tech_index # in[i - 1].tech_index
  \/ /\ ~in[i].process
     /\ C25_Times(in, i)[1] - ToTicks(RestartGap) > C25_Times(in, i)[2]

\* the batches of the first i samples, each with its rows and its label
RECURSIVE C25_Cut(_, _)
C25_Cut(in, i) ==
  IF i = 0 THEN <<>>
  ELSE LET b == C25_Cut(in, i - 1) IN
       IF C25_Opens(in, i)
         THEN Append(b, [rows |-> <<Row(in[i], i)>>, name |-> TechniqueName(in[i])])
         ELSE [b EXCEPT ![Len(b)].rows = Append(@, Row(in[i], i))]

\* the non-empty files of this call, by rows and label
C25_NonEmpty == SelectSeq(files, LAMBDA f : f.rows # <<>>)

C25_Flushed ==
  [k \in 1..Len(C25_NonEmpty) |->
     [rows |-> C25_NonEmpty[k].rows, name |-> C25_NonEmpty[k].name]]

\* C25: for every stream consumed in a single attempt, the deposition loop
\* and run_and_save_characterization flush the same sequence of non-empty
\* batches, with the same rows and the same label: in both, that sequence
\* is one function of the stream alone.
C25_SameBatches ==
  (prog \in {"dep", "char"} /\ OneCleanAttempt)
    => C25_Flushed = C25_Cut(stream, Len(stream))

\* the stream with a restart behind a process sample, consumed by the
\* deposition loop; run_and_save_characterization consumes the same stream
C25_Witness ==
  /\ prog = "dep" /\ mode = "Exact2" /\ OneCleanAttempt
  /\ Len(stream) = Len(Script.Exact2)
  /\ Len(C25_Flushed) = 2
  /\ Len(C25_Flushed[1].rows) = 5

C25_WitnessChar ==
  /\ prog = "char" /\ mode = "Exact2" /\ OneCleanAttempt
  /\ Len(stream) = Len(Script.Exact2)
  /\ Len(C25_Flushed) = 2
  /\ Len(C25_Flushed[1].rows) = 5

\* a stream whose first run id is not 0: the deposition loop writes an empty
\* table first, which is not a batch
C25_WitnessEmpty ==
  /\ prog = "dep" /\ OneCleanAttempt
  /\ Len(files) > Len(C25_Flushed)
  /\ Len(C25_Flushed) >= 1

\* ------------------------------------------------------------------- C26
\* C26: BiologicDevice.run_techniques flushes the same sequence of batches
\* as run_and_save_characterization: when its first job has ended, the rows
\* of its files are the batches cut from the stream, a fall of the time by
\* more than 2 s within one run id included.
C26_DeviceSameBatches ==
  (prog = "device" /\ pc = "connected" /\ job = 1)
    => [k \in 1..Len(files) |-> files[k].rows]
         = [k \in 1..Len(C25_Cut(stream, Len(stream))) |->
              C25_Cut(stream, Len(stream))[k].rows]

\* ------------------------------------------------------------------- C27
\* the run id of the sample a row was built from
C27_RunOf(row) == stream[row.n].tech_index

C27_OneRun(df, id) == \A j \in 1..Len(df) : C27_RunOf(df[j]) = id

\* C27: at every point, the rows of the open batch and of every flushed
\* batch come from samples of one run id, the run id recorded when the
\* batch was started (intID_tech, tech_id), across boundaries and
\* reconnects alike.
C27_OneRunId ==
  /\ prog \in {"dep", "char"} =>
       /\ C27_OneRun(dfData, intID_tech)
       /\ \A k \in 1..Len(files) : C27_OneRun(files[k].rows, files[k].run)
  /\ prog = "device" =>
       /\ pc = "running" => C27_OneRun(df_data, tech_id)
       /\ \A k \in 1..Len(files) : C27_OneRun(files[k].rows, files[k].id)

\* a file whose rows were received in two attempts, behind a reconnect
C27_Witness ==
  /\ prog \in {"dep", "char"}
  /\ \E k \in 1..Len(files) :
       /\ Len(files[k].rows) = 2
       /\ stream[files[k].rows[1].n].attempt # stream[files[k].rows[2].n].attempt

\* a boundary in BiologicDevice.run_techniques, with an open batch behind it
C27_WitnessDevice ==
  /\ prog = "device" /\ pc = "running"
  /\ files # <<>> /\ df_data # <<>>

C28_WitnessConnected ==
  /\ prog = "device" /\ connected
  /\ attempts = max_connection_attempts - 1
  /\ files # <<>>

\* ------------------------------------------------------------------- C29
\* C29: for every sample DataAcquisitionModule awaits every registered
\* handler exactly once, in registration order, before the sample is
\* yielded; a handler that raises does not keep the later handlers from the
\* sample (the data storage still saves it) and does not end the
\* acquisition.
C29_HandlersNotified ==
  /\ [](prog = "acq" =>
         \A i \in 1..Len(stream) :
           /\ stream[i].events = data_handlers \o <<"yield">>
           /\ "data_storage" \notin stream[i].failed
                => \E k \in 1..Len(files) : files[k].rows = <<Row(stream[i], i)>>)
  /\ [][(prog = "acq" /\ Len(stream') > Len(stream)) => pc' = "acquiring"]_vars

\* the visualizer raises for the first sample, which the data storage still
\* saves, and a second sample is delivered
C29_Witness ==
  /\ prog = "acq"
  /\ Len(stream) = 2
  /\ stream[1].failed = {"visualizer"}
  /\ Len(files) = 2
  /\ files[1].rows = <<Row(stream[1], 1)>>

\* ------------------------------------------------------------------- C30
\* C30: under every interleaving of broadcast() with connections and
\* disconnections, self.clients.remove is called at most once for a client:
\* the handler's cleanup never removes a client that broadcast() has removed
\* after a failed send, nor broadcast() one that the handler has removed, so
\* no removal raises KeyError.
C30_RemovedOnce ==
  prog = "ws" =>
    /\ \A c \in Connections : removes[c] <= 1
    /\ \A e \in raised : e[1] # "KeyError"
====
